---- MODULE Spec2Model ----
(***************************************************************************)
(* maptile-cache: the /tiles cache-aside pipeline, with the /maps and      *)
(* /health routes that share its lazily loaded configuration.              *)
(*                                                                         *)
(* The repository holds two versions of the application module: the one    *)
(* that classifies the image format (cacheTileWithType, detectImageType)   *)
(* and src/index.ts, which always stores under the png key (cacheTile).    *)
(* Both share cache.ts, the configuration singleton and the S3 store.      *)
(* The variable app says which of the two handles the requests of a run.   *)
(*                                                                         *)
(* Strings are TLA+ strings, byte buffers are sequences of 0..255.         *)
(* An absent value (undefined / null) of an optional is <<>>, a present    *)
(* one is <<v>>.  An absent query parameter and an empty one are both "":  *)
(* the handler tests them with !x, which is true of both.                  *)
(***************************************************************************)
EXTENDS Integers, Sequences, FiniteSets, TLC

\* Number of requests a run serves (each request id is used once).
MaxReq == 2

Requests == 1..MaxReq

(***************************************************************************)
(* String helpers (JavaScript String methods used by the code).            *)
(***************************************************************************)
Char(s, i) == SubSeq(s, i, i)

DecimalDigits == {"0", "1", "2", "3", "4", "5", "6", "7", "8", "9"}

DigitValue(c) ==
    CASE c = "0" -> 0 [] c = "1" -> 1 [] c = "2" -> 2 [] c = "3" -> 3
      [] c = "4" -> 4 [] c = "5" -> 5 [] c = "6" -> 6 [] c = "7" -> 7
      [] c = "8" -> 8 [] c = "9" -> 9

\* StrWhiteSpaceChar of Number.parseInt, as far as a TLA+ string can hold it:
\* TAB, LF, CR, FF, SP, then written literally VT (U+000B), NBSP (U+00A0),
\* U+1680 and U+FEFF.  The remaining members (U+2000..U+200A, U+2028,
\* U+2029, U+202F, U+205F, U+3000) cannot be written in a TLA+ string and
\* occur in no query of the model.
WhiteSpace ==
    {" ", "\t", "\n", "\r", "\f", "", " ", " ", "﻿"}

RECURSIVE SkipWhiteSpace(_, _)
SkipWhiteSpace(s, i) ==
    IF i <= Len(s) /\ Char(s, i) \in WhiteSpace
    THEN SkipWhiteSpace(s, i + 1)
    ELSE i

\* The end (exclusive) of the run of decimal digits of s that starts at i.
RECURSIVE DigitRunEnd(_, _)
DigitRunEnd(s, i) ==
    IF i <= Len(s) /\ Char(s, i) \in DecimalDigits
    THEN DigitRunEnd(s, i + 1)
    ELSE i

\* The value of the decimal digits s[i..j-1].
RECURSIVE DigitRunValue(_, _, _, _)
DigitRunValue(s, i, j, acc) ==
    IF i >= j THEN acc
    ELSE DigitRunValue(s, i + 1, j, 10 * acc + DigitValue(Char(s, i)))

\* Number.parseInt(s, 10): leading white space is skipped, then an optional
\* sign, then the longest run of decimal digits; whatever follows is ignored.
\* NaN when there is no digit.  (-0 is 0 in every comparison and sum.)
ParseInt(s) ==
    LET i == SkipWhiteSpace(s, 1)
        signed == i <= Len(s) /\ Char(s, i) \in {"+", "-"}
        neg == i <= Len(s) /\ Char(s, i) = "-"
        j == IF signed THEN i + 1 ELSE i
        k == DigitRunEnd(s, j)
        n == DigitRunValue(s, j, k, 0)
    IN  IF k = j THEN [nan |-> TRUE, val |-> 0]
        ELSE [nan |-> FALSE, val |-> IF neg THEN 0 - n ELSE n]

\* String.prototype.includes
Includes(s, sub) ==
    \E i \in 1..(Len(s) - Len(sub) + 1) : SubSeq(s, i, i + Len(sub) - 1) = sub

RECURSIVE StripLeadingSlashes(_)
StripLeadingSlashes(s) ==
    IF Len(s) > 0 /\ Char(s, 1) = "/"
    THEN StripLeadingSlashes(SubSeq(s, 2, Len(s)))
    ELSE s

RECURSIVE StripTrailingSlashes(_)
StripTrailingSlashes(s) ==
    IF Len(s) > 0 /\ Char(s, Len(s)) = "/"
    THEN StripTrailingSlashes(SubSeq(s, 1, Len(s) - 1))
    ELSE s

\* The replace with the leading alternative of the pattern only.
CleanPrefixLeadingOnly(prefix) == StripLeadingSlashes(prefix)

\* prefix.replace(/^\/+|\/+$/g, "")
CleanPrefix(prefix) == StripTrailingSlashes(StripLeadingSlashes(prefix))

\* s.replace(pattern, replacement) with a string pattern: the first
\* occurrence only, s itself when there is none.
RECURSIVE FirstIndexOf(_, _, _)
FirstIndexOf(s, pattern, i) ==
    IF i + Len(pattern) - 1 > Len(s) THEN 0
    ELSE IF SubSeq(s, i, i + Len(pattern) - 1) = pattern THEN i
    ELSE FirstIndexOf(s, pattern, i + 1)

\* What replace() writes for a replacement string (GetSubstitution, for a
\* string pattern, which has no captures): $$ is a $, $& the matched text,
\* $' the text after the match; any other $ and every other character are
\* written as they are.  From position i on.  ($ followed by a grave accent
\* is the text before the match; a TLA+ string cannot hold a grave accent,
\* and no token of the model does.)
RECURSIVE Substitution(_, _, _, _)
Substitution(replacement, i, matched, after) ==
    IF i > Len(replacement) THEN ""
    ELSE IF Char(replacement, i) = "$" /\ i < Len(replacement)
    THEN LET c == Char(replacement, i + 1)
         IN  IF c = "$"
             THEN "$" \o Substitution(replacement, i + 2, matched, after)
             ELSE IF c = "&"
             THEN matched \o Substitution(replacement, i + 2, matched, after)
             ELSE IF c = "'"
             THEN after \o Substitution(replacement, i + 2, matched, after)
             ELSE "$" \o Substitution(replacement, i + 1, matched, after)
    ELSE Char(replacement, i)
             \o Substitution(replacement, i + 1, matched, after)

ReplaceFirst(s, pattern, replacement) ==
    LET i == FirstIndexOf(s, pattern, 1)
        after == SubSeq(s, i + Len(pattern), Len(s))
    IN  IF i = 0 THEN s
        ELSE SubSeq(s, 1, i - 1)
                 \o Substitution(replacement, 1, pattern, after) \o after

\* The % of JavaScript on integers: the sign of the dividend.
JsRemainder(a, n) == IF a >= 0 THEN a % n ELSE 0 - ((0 - a) % n)

(***************************************************************************)
(* cache.ts                                                                *)
(***************************************************************************)
\* key is a TileCacheKey [x, y, z, mapSource]; cachePrefix "" when unset.
generateTileKey(key, cachePrefix, extension) ==
    LET prefix == IF cachePrefix # "" THEN cachePrefix ELSE key.mapSource
        cleanPrefix == CleanPrefix(prefix)
        tilePath == "tiles/" \o key.z \o "/" \o key.x \o "/" \o key.y
                        \o "." \o extension
    IN  IF cleanPrefix # "" THEN cleanPrefix \o "/" \o tilePath ELSE tilePath

\* contentType of cacheTileWithType
StoredContentType(imageType) ==
    IF imageType = "jpg" THEN "image/jpeg" ELSE "image/png"

(***************************************************************************)
(* The format sniffer.                                                     *)
(***************************************************************************)
JpegSignature == <<255, 216, 255>>
PngSignature == <<137, 80, 78, 71, 13, 10, 26, 10>>

\* detectImageType looking at two bytes of the JPEG signature only.
detectImageTypeTwoBytes(buffer) ==
    IF Len(buffer) >= 2 /\ SubSeq(buffer, 1, 2) = <<255, 216>> THEN "jpg"
    ELSE IF Len(buffer) >= 8 /\ SubSeq(buffer, 1, 8) = PngSignature THEN "png"
    ELSE "png"

detectImageType(buffer) ==
    IF Len(buffer) >= 3 /\ SubSeq(buffer, 1, 3) = JpegSignature THEN "jpg"
    ELSE IF Len(buffer) >= 8 /\ SubSeq(buffer, 1, 8) = PngSignature THEN "png"
    ELSE "png"

\* The miss path with the signature first and the content-type second.
ClassifyFetchedSignatureFirst(contentType, tileBuffer) ==
    IF detectImageType(tileBuffer) = "jpg" THEN "jpg"
    ELSE IF Includes(contentType, "jpeg") \/ Includes(contentType, "jpg")
    THEN "jpg"
    ELSE "png"

\* The miss path: the upstream content-type first, then the signature.
ClassifyFetched(contentType, tileBuffer) ==
    IF Includes(contentType, "jpeg") \/ Includes(contentType, "jpg") THEN "jpg"
    ELSE IF Includes(contentType, "png") THEN "png"
    ELSE detectImageType(tileBuffer)

(***************************************************************************)
(* The environment of a run: the configuration file, what clients send,    *)
(* what the upstream answers.                                              *)
(***************************************************************************)
\* config/maps.json: a provider with a cache prefix written with slashes and
\* a subdomain pool, one with no cache prefix and no subdomains, one whose
\* cache prefix is slashes only, one whose prefix has several slashes around
\* and one inside, and one with no prefix and an id that ends in a slash.
ConfigFile ==
    [maps |-> ("osm" :> [urlTemplate |-> "https://{s}.osm.test/{z}/{x}/{y}.png",
                         maxZoom |-> 2, cachePrefix |-> "/osm/",
                         subdomains |-> <<"a", "b", "c">>])
           @@ ("sat" :> [urlTemplate |-> "https://sat.test/{z}/{y}/{x}",
                         maxZoom |-> 1, cachePrefix |-> "",
                         subdomains |-> <<>>])
           @@ ("root" :> [urlTemplate |-> "https://root.test/{z}/{x}/{y}",
                          maxZoom |-> 1, cachePrefix |-> "//",
                          subdomains |-> <<>>])
           @@ ("deep" :> [urlTemplate |-> "https://deep.test/{z}/{x}/{y}",
                          maxZoom |-> 1, cachePrefix |-> "//maps/deep///",
                          subdomains |-> <<>>])
           @@ ("tms/" :> [urlTemplate |-> "https://tms.test/{z}/{x}/{y}",
                          maxZoom |-> 1, cachePrefix |-> "",
                          subdomains |-> <<>>])]

\* What config/maps.json may be when loadConfig reads it: absent, present
\* but not JSON (file.json() rejects), JSON without a "maps" member, or the
\* configuration above.  json is <<>> or <<the parsed value>>.
MissingFile == [exists |-> FALSE, json |-> <<>>]

UnparsableFile == [exists |-> TRUE, json |-> <<>>]

FileWithoutMaps == [exists |-> TRUE, json |-> <<[other |-> 1]>>]

ValidFile == [exists |-> TRUE, json |-> <<ConfigFile>>]

ConfigFiles == {MissingFile, UnparsableFile, FileWithoutMaps, ValidFile}

\* The property names every object inherits from Object.prototype: maps[id]
\* finds a value for them although maps has no such provider.
ObjectPrototypeNames ==
    { "constructor", "toString", "toLocaleString", "valueOf",
      "hasOwnProperty", "isPrototypeOf", "propertyIsEnumerable", "__proto__",
      "__defineGetter__", "__defineSetter__", "__lookupGetter__",
      "__lookupSetter__" }

\* What maps[id] finds for such a name (a built-in function, or
\* Object.prototype itself), seen as a MapSource: truthy, with no
\* urlTemplate and no maxZoom (absent fields), no cachePrefix (""), no
\* subdomains (<<>>).
InheritedMember == [cachePrefix |-> "", subdomains |-> <<>>]

JpegTile == <<255, 216, 255, 224>>
PngTile == <<137, 80, 78, 71, 13, 10, 26, 10, 0>>

\* What one upstream fetch can end in: the fetch throws (and so may the read
\* of a body), a non-success status, or a success status with a content-type
\* header ("" when absent) and a body.
UpstreamThrow ==
    [kind |-> "throw", ok |-> FALSE, statusText |-> "", contentType |-> "",
     body |-> <<>>]

UpstreamStatus(statusText) ==
    [kind |-> "http", ok |-> FALSE, statusText |-> statusText,
     contentType |-> "text/html", body |-> <<60, 104, 49, 62>>]

UpstreamTile(contentType, body) ==
    [kind |-> "http", ok |-> TRUE, statusText |-> "OK",
     contentType |-> contentType, body |-> body]

UpstreamReplies ==
    { UpstreamThrow,
      UpstreamStatus("Service Unavailable"),
      UpstreamTile("image/jpeg", JpegTile),
      UpstreamTile("", PngTile),
      UpstreamTile("image/png", JpegTile) }

\* Bodies and stored objects of the runs on formats: empty, shorter than a
\* signature, the signatures alone and followed by data, near misses, a
\* signature that is not at the start, another format.
SniffBuffers ==
    { <<>>,
      <<255>>,
      <<255, 216>>,
      JpegSignature,
      JpegTile,
      <<255, 216, 0, 255>>,
      <<0, 255, 216, 255>>,
      <<137, 80, 78, 71, 13, 10, 26>>,
      PngSignature,
      PngTile,
      <<137, 80, 78, 71, 13, 10, 26, 11>>,
      <<71, 73, 70, 56>> }

\* Upstream content-type headers of the runs on formats ("" is absent).
FormatHeaders ==
    { "", "image/jpeg", "image/jpg", "image/png", "image/png; name=t.jpeg",
      "application/octet-stream", "image/JPEG", "image/webp" }

FormatReplies ==
    { UpstreamThrow, UpstreamStatus("Not Found") } \cup
    { UpstreamTile(h, b) : h \in FormatHeaders, b \in SniffBuffers }

\* A request: its route and its query parameters ("" when not sent).
Query(source, z, x, y) ==
    [path |-> "/tiles", source |-> source, z |-> z, x |-> x, y |-> y]

MapsRequest == [path |-> "/maps", source |-> "", z |-> "", x |-> "", y |-> ""]

HealthRequest ==
    [path |-> "/health", source |-> "", z |-> "", x |-> "", y |-> ""]

\* The queries of the runs on namespaces: one tile of every provider.
NamespaceQueries ==
    { Query("osm", "2", "1", "0") } \cup
    { Query(id, "1", "0", "1") : id \in {"sat", "root", "deep", "tms/"} }

\* The requests of the runs on the three routes.
RouteQueries == {Query("osm", "2", "1", "0"), MapsRequest, HealthRequest}

\* The queries of the concurrent runs: one tile, and the same tile at a zoom
\* above the provider's maximum.
RaceQueries ==
    { Query("osm", "2", "1", "0"),
      Query("osm", "3", "1", "0") }

\* The queries of the runs on coordinate tokens: one tile written with and
\* without a leading zero, and two tiles whose tokens hold a separator.
TokenQueries ==
    { Query("osm", "2", "1", "0"),
      Query("osm", "02", "1", "0"),
      Query("sat", "1", "1/2", "0"),
      Query("sat", "1", "1", "2/0") }

\* The queries of the single-request runs: every combination of these.
\* "constructor" names no provider and is a name of ObjectPrototypeNames;
\* "\f2" starts with a form feed, the column after "x" with a no-break
\* space; the tokens with a $ parse as 1 and are expanded by replace().
DollarTokens == {"1$&", "1$$", "1$'"}
SweepSources == {"", "osm", "sat", "nope", "constructor"}
SweepZooms == {"", "0", "2", "02", "3", "-1", "2px", " 1", "\f2", "z"}
SweepColumns == {"", "1", "-4", "x", " 1"} \cup DollarTokens
SweepRows == {"", "0", "1/2", "y"}

SweepQueries ==
    { Query(s, z, x, y) : s \in SweepSources, z \in SweepZooms,
                          x \in SweepColumns, y \in SweepRows }

(***************************************************************************)
(* State.                                                                  *)
(***************************************************************************)
VARIABLES
    app,             \* which application module serves: "typed" or "index"
    clients,         \* the request ids of this run
    offered,         \* the queries clients may send in this run
    answers,         \* what an upstream fetch may end in, in this run
    disk,            \* config/maps.json as loadConfig finds it in this run
    isConfigLoaded,  \* the module's flag
    config,          \* MapConfig.config: <<>> (null) or <<the loaded file>>
    loads,           \* number of loadConfig() calls started
    store,           \* the bucket: object key -> [data, type]
    pc,              \* where each request's handler is suspended; "done"
                     \* when it has returned a response, "threw" when it
                     \* has thrown (it then returns none)
    query,           \* the query of each request
    probe,           \* getCachedTile's outcome: "none", "hit", "miss", "error"
    res,             \* <<>> or <<the Response fetch() resolved with>>, while
                     \* and after its body is read
    upstream,        \* <<>> or <<what the request's fetch ended in>>, once
                     \* it has failed or its body has been read
    fetches,         \* number of upstream fetches the request issued
    wr,              \* the request's store write: state, key, data, type
    resp,            \* <<>> or <<the response the handler returned>>
    client,          \* "connected", or when the client left: "left before
                     \* response", "left after response"
    settled,         \* the writes that had succeeded when the request arrived
    listed           \* <<>> or <<the provider ids a /maps or /health body lists>>

vars == <<app, clients, offered, answers, disk, isConfigLoaded, config,
          loads, store, pc, query, probe, res, upstream, fetches, wr, resp,
          client, settled, listed>>

NoWrite == [state |-> "none", key |-> "", data |-> <<>>, type |-> ""]

InitWith(cs, qs, objects, replies) ==
    /\ app \in {"typed", "index"}
    /\ clients = cs
    /\ offered = qs
    /\ answers = replies
    /\ disk \in ConfigFiles
    /\ isConfigLoaded = FALSE
    /\ config = <<>>
    /\ loads = 0
    /\ store = objects
    /\ pc = [r \in Requests |-> "idle"]
    /\ query = [r \in Requests |-> Query("", "", "", "")]
    /\ probe = [r \in Requests |-> "none"]
    /\ res = [r \in Requests |-> <<>>]
    /\ upstream = [r \in Requests |-> <<>>]
    /\ fetches = [r \in Requests |-> 0]
    /\ wr = [r \in Requests |-> NoWrite]
    /\ resp = [r \in Requests |-> <<>>]
    /\ client = [r \in Requests |-> "connected"]
    /\ settled = [r \in Requests |-> {}]
    /\ listed = [r \in Requests |-> <<>>]

\* The concurrent runs: every request id, an empty bucket.
Init == InitWith(Requests, RaceQueries, <<>>, UpstreamReplies)

\* The bucket an earlier run leaves behind after it fetched one png tile.
SeedStore ==
    generateTileKey([x |-> "1", y |-> "0", z |-> "2", mapSource |-> "osm"],
                    ConfigFile.maps["osm"].cachePrefix, "png")
        :> [data |-> PngTile, type |-> StoredContentType("png")]

\* The bucket with one object, of any content, under the png key of the tile.
StoredTile(buffer) ==
    generateTileKey([x |-> "1", y |-> "0", z |-> "2", mapSource |-> "osm"],
                    ConfigFile.maps["osm"].cachePrefix, "png")
        :> [data |-> buffer, type |-> StoredContentType("png")]

\* The runs on formats: one request for the tile, the bucket empty or
\* holding any of the buffers, the upstream answering any header and body.
InitFormats ==
    \/ InitWith({1}, {Query("osm", "2", "1", "0")}, <<>>, FormatReplies)
    \/ \E b \in SniffBuffers :
           InitWith({1}, {Query("osm", "2", "1", "0")}, StoredTile(b),
                    FormatReplies)

\* The single-request runs: one request, any query of the sweep.
InitSweep == InitWith({1}, SweepQueries, SeedStore, UpstreamReplies)

\* The queries of the runs under fairness: every source, a zoom in range, one
\* above every provider's maximum and one that is no number, and columns that
\* are plain, no number, or expanded by replace().
FairQueries ==
    { Query(s, z, x, "0") : s \in SweepSources, z \in {"2", "3", "z"},
                            x \in {"1", "x"} \cup DollarTokens }

InitFair == InitWith({1}, FairQueries, SeedStore, UpstreamReplies)

(***************************************************************************)
(* The /tiles handler.                                                     *)
(***************************************************************************)
TextResponse(text, status) ==
    [status |-> status, text |-> text, bytes |-> <<>>,
     contentType |-> "text/plain", cacheControl |-> "", xCache |-> "",
     disposition |-> ""]

TileResponse(bytes, contentType, cacheControl, xCache, disposition) ==
    [status |-> 200, text |-> "", bytes |-> bytes,
     contentType |-> contentType, cacheControl |-> cacheControl,
     xCache |-> xCache, disposition |-> disposition]

\* The checks before the configuration is consulted: presence, then the
\* numeric parse.  <<>> when the query passes.
ValidateQuery(q) ==
    IF q.source = "" \/ q.x = "" \/ q.y = "" \/ q.z = ""
    THEN <<TextResponse("Missing required query parameters: source, x, y, z",
                        400)>>
    ELSE IF ParseInt(q.z).nan \/ ParseInt(q.x).nan \/ ParseInt(q.y).nan
    THEN <<TextResponse("Invalid coordinate format", 400)>>
    ELSE <<>>

\* MapConfig.getMapSource: <<>> is null.  maps[mapId] is a property read:
\* a provider of the file, else what the name inherits, else undefined.
getMapSource(cfg, mapId) ==
    IF cfg = <<>> THEN <<>>
    ELSE IF mapId \in DOMAIN cfg[1].maps THEN <<cfg[1].maps[mapId]>>
    ELSE IF mapId \in ObjectPrototypeNames THEN <<InheritedMember>>
    ELSE <<>>

\* ${mapSource.maxZoom} in the message of the zoom check.
MaxZoomText(mapSource) ==
    IF "maxZoom" \in DOMAIN mapSource THEN ToString(mapSource.maxZoom)
    ELSE "undefined"

\* zoom > mapSource.maxZoom: false when maxZoom is undefined.
AboveMaxZoom(zoom, mapSource) ==
    "maxZoom" \in DOMAIN mapSource /\ zoom > mapSource.maxZoom

\* The checks against the configuration: the provider, then the zoom.
ValidateSource(cfg, q) ==
    LET mapSource == getMapSource(cfg, q.source)
        zoom == ParseInt(q.z).val
    IN  IF mapSource = <<>>
        THEN <<TextResponse("Map source not found: " \o q.source, 404)>>
        ELSE IF zoom < 0 \/ AboveMaxZoom(zoom, mapSource[1])
        THEN <<TextResponse("Zoom level out of range. Max zoom: "
                                \o MaxZoomText(mapSource[1]), 400)>>
        ELSE <<>>

\* The cacheKey object of the handler.
CacheKey(q) == [x |-> q.x, y |-> q.y, z |-> q.z, mapSource |-> q.source]

\* The mapSource local of a request that passed validation.
MapSourceOf(r) == getMapSource(config, query[r].source)[1]

\* The key getCachedTile probes: the default extension, png.
ProbeKey(r) == generateTileKey(CacheKey(query[r]), MapSourceOf(r).cachePrefix, "png")

\* The subdomain substituted for {s}; an index outside the array reads
\* undefined, which replace() writes as "undefined".
SubdomainFor(mapSource, q) ==
    LET n == Len(mapSource.subdomains)
        subdomainIndex ==
            JsRemainder(ParseInt(q.x).val + ParseInt(q.y).val + ParseInt(q.z).val, n)
    IN  IF subdomainIndex + 1 \in 1..n
        THEN mapSource.subdomains[subdomainIndex + 1]
        ELSE "undefined"

BuildUrl(mapSource, q) ==
    LET u1 == ReplaceFirst(mapSource.urlTemplate, "{z}", q.z)
        u2 == ReplaceFirst(u1, "{x}", q.x)
        u3 == ReplaceFirst(u2, "{y}", q.y)
    IN  IF Len(mapSource.subdomains) > 0
        THEN ReplaceFirst(u3, "{s}", SubdomainFor(mapSource, q))
        ELSE u3

\* A request arrives.  Lines up to the call of ensureConfigLoaded, whose
\* first caller(s) start loadConfig; /maps and /health call it at once.
Receive(r) ==
    /\ r \in clients
    /\ pc[r] = "idle"
    /\ \A s \in clients : s < r => pc[s] # "idle"
    /\ \E q \in offered :
         /\ query' = [query EXCEPT ![r] = q]
         /\ IF q.path = "/tiles" /\ ValidateQuery(q) # <<>>
            THEN /\ resp' = [resp EXCEPT ![r] = ValidateQuery(q)]
                 /\ pc' = [pc EXCEPT ![r] = "done"]
                 /\ loads' = loads
            ELSE /\ resp' = resp
                 /\ IF isConfigLoaded
                    THEN pc' = [pc EXCEPT ![r] = "resolve"] /\ loads' = loads
                    ELSE pc' = [pc EXCEPT ![r] = "loadConfig"] /\ loads' = loads + 1
    /\ settled' = [settled EXCEPT ![r] = {s \in Requests : wr[s].state = "ok"}]
    /\ UNCHANGED <<app, clients, offered, answers, disk, listed,
                   isConfigLoaded, config, store, probe,
                   res, upstream, fetches, wr, client>>

\* loadConfig's await of file.exists() settles.  For a missing file
\* loadConfig throws; its catch logs and rethrows, ensureConfigLoaded does
\* not reach the assignment of the flag, and the handler, which has no try
\* around the call, throws: it returns no response.
ConfigExistsReturn(r) ==
    /\ pc[r] = "loadConfig"
    /\ pc' = [pc EXCEPT ![r] = IF disk.exists THEN "readConfig" ELSE "threw"]
    /\ UNCHANGED <<app, clients, offered, answers, disk, listed,
                   isConfigLoaded, config, loads, store, query, probe, res,
                   upstream, fetches, wr, resp, client, settled>>

\* loadConfig's await of file.json() settles.  It rejects for a file that
\* is not JSON; otherwise this.config is assigned and the log line reads
\* this.config.maps, which throws when there is none.  When nothing throws
\* loadConfig returns to ensureConfigLoaded, which sets the flag.
LoadConfigReturn(r) ==
    /\ pc[r] = "readConfig"
    /\ IF disk.json = <<>>
       THEN /\ pc' = [pc EXCEPT ![r] = "threw"]
            /\ UNCHANGED <<config, isConfigLoaded>>
       ELSE /\ config' = disk.json
            /\ IF "maps" \in DOMAIN disk.json[1]
               THEN /\ isConfigLoaded' = TRUE
                    /\ pc' = [pc EXCEPT ![r] = "resolve"]
               ELSE /\ isConfigLoaded' = isConfigLoaded
                    /\ pc' = [pc EXCEPT ![r] = "threw"]
    /\ UNCHANGED <<app, clients, offered, answers, disk, listed,
                   loads, store, query, probe, res, upstream,
                   fetches, wr, resp, client, settled>>

\* c.json(body): the body is kept as its leading key, the provider ids it
\* lists are in listed.
JsonResponse(key) ==
    [status |-> 200, text |-> key, bytes |-> <<>>,
     contentType |-> "application/json", cacheControl |-> "", xCache |-> "",
     disposition |-> ""]

\* MapConfig.getAllMapSources, by the ids of the sources: none when the
\* configuration is null.
getAllMapSources(cfg) == IF cfg = <<>> THEN {} ELSE DOMAIN cfg[1].maps

\* MapConfig.getAvailableSources
getAvailableSources(cfg) == IF cfg = <<>> THEN {} ELSE DOMAIN cfg[1].maps

\* The rest of the /maps and /health handlers after ensureConfigLoaded.
ListSources(r) ==
    /\ listed' = [listed EXCEPT ![r] =
                    IF query[r].path = "/maps"
                    THEN <<getAllMapSources(config)>>
                    ELSE <<getAvailableSources(config)>>]
    /\ resp' = [resp EXCEPT ![r] =
                  IF query[r].path = "/maps"
                  THEN <<JsonResponse("maps")>>
                  ELSE <<JsonResponse("status")>>]
    /\ pc' = [pc EXCEPT ![r] = "done"]

\* After ensureConfigLoaded: /tiles goes on to the provider, the zoom, then
\* getCachedTile up to its await of file.exists(); /maps and /health answer.
Resolve(r) ==
    /\ pc[r] = "resolve"
    /\ IF query[r].path # "/tiles"
       THEN ListSources(r)
       ELSE /\ listed' = listed
            /\ IF ValidateSource(config, query[r]) # <<>>
               THEN /\ resp' = [resp EXCEPT ![r] =
                                  ValidateSource(config, query[r])]
                    /\ pc' = [pc EXCEPT ![r] = "done"]
               ELSE /\ resp' = resp
                    /\ pc' = [pc EXCEPT ![r] = "exists"]
    /\ UNCHANGED <<app, clients, offered, answers, disk, isConfigLoaded,
                   config, loads, store, query, probe, res, upstream, fetches,
                   wr, client, settled>>

\* The URL of the request's upstream fetch.
FetchUrl(r) == BuildUrl(MapSourceOf(r), query[r])

\* The handler continues as on a miss: it builds the URL and issues the
\* fetch of FetchUrl(r).  Without a urlTemplate, url.replace is called on
\* undefined, outside the try: the handler throws a TypeError.
StartFetch(r, outcome) ==
    /\ probe' = [probe EXCEPT ![r] = outcome]
    /\ resp' = resp
    /\ IF "urlTemplate" \in DOMAIN MapSourceOf(r)
       THEN /\ fetches' = [fetches EXCEPT ![r] = @ + 1]
            /\ pc' = [pc EXCEPT ![r] = "fetch"]
       ELSE /\ fetches' = fetches
            /\ pc' = [pc EXCEPT ![r] = "threw"]

\* getCachedTile without its catch: the store's error becomes the answer.
ProbeFailedSurfaces(r) ==
    /\ probe' = [probe EXCEPT ![r] = "error"]
    /\ resp' = [resp EXCEPT ![r] = <<TextResponse("Internal Server Error", 500)>>]
    /\ pc' = [pc EXCEPT ![r] = "done"]
    /\ UNCHANGED fetches

\* getCachedTile's catch: a warning is logged and null is returned.
ProbeFailed(r) == StartFetch(r, "error")

\* file.exists() settles: false, true (then the read is issued), or it
\* throws and getCachedTile's catch returns null.
ExistsReturn(r) ==
    /\ pc[r] = "exists"
    /\ \/ /\ ProbeKey(r) \notin DOMAIN store
          /\ StartFetch(r, "miss")
       \/ /\ ProbeKey(r) \in DOMAIN store
          /\ pc' = [pc EXCEPT ![r] = "read"]
          /\ UNCHANGED <<probe, fetches, resp>>
       \/ ProbeFailed(r)
    /\ UNCHANGED <<app, clients, offered, answers, disk, listed,
                   isConfigLoaded, config, loads, store,
                   query, res, upstream, wr, client, settled>>

\* The response of the cache hit branch: the format is sniffed.
HitResponseTyped(cachedTile) ==
    TileResponse(cachedTile,
                 IF detectImageType(cachedTile) = "jpg"
                 THEN "image/jpeg" ELSE "image/png",
                 "public, max-age=86400", "HIT", "inline")

\* The response of the cache hit branch of src/index.ts: always image/png.
HitResponseIndex(cachedTile) ==
    TileResponse(cachedTile, "image/png", "public, max-age=86400", "HIT", "")

HitResponse(cachedTile) ==
    IF app = "typed" THEN HitResponseTyped(cachedTile)
    ELSE HitResponseIndex(cachedTile)

\* The hit branch without its return: the handler goes on to the fetch.
ServeHitFallThrough(r, cachedTile) ==
    /\ probe' = [probe EXCEPT ![r] = "hit"]
    /\ resp' = [resp EXCEPT ![r] = <<HitResponse(cachedTile)>>]
    /\ fetches' = [fetches EXCEPT ![r] = @ + 1]
    /\ pc' = [pc EXCEPT ![r] = "fetch"]

\* getCachedTile returned a buffer: if (cachedTile) responds and returns.
ServeHit(r, cachedTile) ==
    /\ probe' = [probe EXCEPT ![r] = "hit"]
    /\ resp' = [resp EXCEPT ![r] = <<HitResponse(cachedTile)>>]
    /\ pc' = [pc EXCEPT ![r] = "done"]
    /\ UNCHANGED fetches

\* file.arrayBuffer() settles: the object's bytes, or it throws and
\* getCachedTile's catch returns null.
ReadReturn(r) ==
    /\ pc[r] = "read"
    /\ \/ ServeHit(r, store[ProbeKey(r)].data)
       \/ ProbeFailed(r)
    /\ UNCHANGED <<app, clients, offered, answers, disk, listed,
                   isConfigLoaded, config, loads, store,
                   query, res, upstream, wr, client, settled>>

\* The image type the handler passes to the cache: the classified one;
\* src/index.ts calls cacheTile, which passes "png".
ImageTypeOf(reply) ==
    IF app = "typed" THEN ClassifyFetched(reply.contentType, reply.body)
    ELSE "png"

\* cacheTileWithType up to its await of file.write (cacheTile is
\* cacheTileWithType with "png").
IssuedWrite(r, data, imageType) ==
    [state |-> "pending",
     key |-> generateTileKey(CacheKey(query[r]), MapSourceOf(r).cachePrefix,
                             imageType),
     data |-> data,
     type |-> StoredContentType(imageType)]

\* The response of the miss branch.
MissResponseTyped(reply) ==
    TileResponse(reply.body,
                 IF ImageTypeOf(reply) = "jpg"
                 THEN "image/jpeg" ELSE "image/png",
                 "public, max-age=86400", "MISS", "inline")

\* The response of the miss branch of src/index.ts: no header is set.
MissResponseIndex(reply) == TileResponse(reply.body, "", "", "", "")

MissResponse(reply) ==
    IF app = "typed" THEN MissResponseTyped(reply)
    ELSE MissResponseIndex(reply)

\* The write awaited: the handler is suspended on it before it responds.
PersistThenRespond(r, reply) ==
    /\ wr' = [wr EXCEPT ![r] = IssuedWrite(r, reply.body, ImageTypeOf(reply))]
    /\ resp' = resp
    /\ pc' = [pc EXCEPT ![r] = "write"]

\* The write issued with the first bytes of the body only.
PersistTruncated(r, reply) ==
    /\ wr' = [wr EXCEPT ![r] = IssuedWrite(r, SubSeq(reply.body, 1, 2),
                                           ImageTypeOf(reply))]
    /\ resp' = [resp EXCEPT ![r] = <<MissResponse(reply)>>]
    /\ pc' = [pc EXCEPT ![r] = "done"]

\* A fetched tile: the write is issued and not awaited, the response is
\* returned in the same turn.
PersistAndRespond(r, reply) ==
    /\ wr' = [wr EXCEPT ![r] = IssuedWrite(r, reply.body, ImageTypeOf(reply))]
    /\ resp' = [resp EXCEPT ![r] = <<MissResponse(reply)>>]
    /\ pc' = [pc EXCEPT ![r] = "done"]

\* The tile persisted before res.ok is looked at.
FailFetchAfterPersist(r, reply) ==
    /\ resp' = [resp EXCEPT ![r] =
                  IF reply.kind = "http"
                  THEN <<TextResponse("Failed to fetch tile from source: "
                                          \o reply.statusText, 500)>>
                  ELSE <<TextResponse("Internal server error", 500)>>]
    /\ pc' = [pc EXCEPT ![r] = "done"]
    /\ wr' = [wr EXCEPT ![r] = IssuedWrite(r, reply.body, "png")]

\* A failed fetch sending the handler back to the cache lookup.
FailFetchRetries(r, reply) ==
    /\ resp' = resp
    /\ pc' = [pc EXCEPT ![r] = "exists"]
    /\ wr' = wr

\* A failed fetch: the !res.ok branch, or the catch.
FailFetch(r, reply) ==
    /\ resp' = [resp EXCEPT ![r] =
                  IF reply.kind = "http"
                  THEN <<TextResponse("Failed to fetch tile from source: "
                                          \o reply.statusText, 500)>>
                  ELSE <<TextResponse("Internal server error", 500)>>]
    /\ pc' = [pc EXCEPT ![r] = "done"]
    /\ wr' = wr

\* await fetch(url) settles: it throws into the catch, or resolves with a
\* Response; a non-success status is answered at once, for a success the
\* handler goes on to await the body.
FetchReturn(r) ==
    /\ pc[r] = "fetch"
    /\ \E reply \in answers :
         IF reply.kind = "http" /\ reply.ok
         THEN /\ res' = [res EXCEPT ![r] = <<reply>>]
              /\ pc' = [pc EXCEPT ![r] = "body"]
              /\ UNCHANGED <<upstream, resp, wr>>
         ELSE /\ res' = [res EXCEPT ![r] =
                          IF reply.kind = "http" THEN <<reply>> ELSE <<>>]
              /\ upstream' = [upstream EXCEPT ![r] = <<reply>>]
              /\ FailFetch(r, reply)
    /\ UNCHANGED <<app, clients, offered, answers, disk, listed,
                   isConfigLoaded, config, loads, store,
                   query, probe, fetches, client, settled>>

\* await res.arrayBuffer() settles: the body is read, classified, handed to
\* the cache and returned; or the read throws into the catch.
BodyReturn(r) ==
    /\ pc[r] = "body"
    /\ \/ /\ upstream' = [upstream EXCEPT ![r] = res[r]]
          /\ PersistAndRespond(r, res[r][1])
       \/ /\ UpstreamThrow \in answers
          /\ upstream' = [upstream EXCEPT ![r] = <<UpstreamThrow>>]
          /\ FailFetch(r, UpstreamThrow)
    /\ UNCHANGED <<app, clients, offered, answers, disk, listed,
                   isConfigLoaded, config, loads, store,
                   query, probe, res, fetches, client, settled>>

\* A failed write whose error reaches the response.
WriteReturnSurfacingFailure(r) ==
    /\ wr[r].state = "pending"
    /\ \/ /\ store' = (wr[r].key :> [data |-> wr[r].data, type |-> wr[r].type])
                         @@ store
          /\ wr' = [wr EXCEPT ![r].state = "ok"]
          /\ resp' = resp
       \/ /\ store' = store
          /\ wr' = [wr EXCEPT ![r].state = "failed"]
          /\ resp' = [resp EXCEPT ![r] =
                        <<TextResponse("Internal server error", 500)>>]
    /\ UNCHANGED <<app, clients, offered, answers, disk, listed,
                   isConfigLoaded, config, loads, pc,
                   query, probe, res, upstream, fetches, client, settled>>

\* A write tied to the request: abandoned once the client has left.
WriteReturnWhileConnected(r) ==
    /\ wr[r].state = "pending"
    /\ client[r] = "connected"
    /\ \/ /\ store' = (wr[r].key :> [data |-> wr[r].data, type |-> wr[r].type])
                         @@ store
          /\ wr' = [wr EXCEPT ![r].state = "ok"]
       \/ /\ store' = store
          /\ wr' = [wr EXCEPT ![r].state = "failed"]
    /\ UNCHANGED <<app, clients, offered, answers, disk, listed,
                   isConfigLoaded, config, loads, pc,
                   query, probe, res, upstream, fetches, resp, client,
                   settled>>

\* A failed write that leaves the part it had sent under the key.
WriteReturnPartial(r) ==
    /\ wr[r].state = "pending"
    /\ \/ /\ store' = (wr[r].key :> [data |-> wr[r].data, type |-> wr[r].type])
                         @@ store
          /\ wr' = [wr EXCEPT ![r].state = "ok"]
       \/ /\ store' = (wr[r].key :> [data |-> SubSeq(wr[r].data, 1, 2),
                                      type |-> wr[r].type]) @@ store
          /\ wr' = [wr EXCEPT ![r].state = "failed"]
    /\ UNCHANGED <<app, clients, offered, answers, disk, listed,
                   isConfigLoaded, config, loads, pc,
                   query, probe, res, upstream, fetches, resp, client,
                   settled>>

\* file.write settles: the object is stored whole, or the write fails and
\* cacheTileWithType's catch logs it.
WriteReturn(r) ==
    /\ wr[r].state = "pending"
    /\ \/ /\ store' = (wr[r].key :> [data |-> wr[r].data, type |-> wr[r].type])
                         @@ store
          /\ wr' = [wr EXCEPT ![r].state = "ok"]
       \/ /\ store' = store
          /\ wr' = [wr EXCEPT ![r].state = "failed"]
    /\ UNCHANGED <<app, clients, offered, answers, disk, listed,
                   isConfigLoaded, config, loads, pc,
                   query, probe, res, upstream, fetches, resp, client,
                   settled>>

\* The client goes away; nothing in the handler or in cache.ts observes it.
ClientDisconnect(r) ==
    /\ pc[r] # "idle"
    /\ client[r] = "connected"
    /\ client' = [client EXCEPT ![r] =
                    IF resp[r] = <<>> THEN "left before response"
                    ELSE "left after response"]
    /\ UNCHANGED <<app, clients, offered, answers, disk, listed,
                   isConfigLoaded, config, loads, store,
                   pc, query, probe, res, upstream, fetches, wr, resp, settled>>

\* The server: every continuation of every request.
Next ==
    \E r \in Requests :
        \/ Receive(r)
        \/ ConfigExistsReturn(r)
        \/ LoadConfigReturn(r)
        \/ Resolve(r)
        \/ ExistsReturn(r)
        \/ ReadReturn(r)
        \/ FetchReturn(r)
        \/ BodyReturn(r)
        \/ WriteReturn(r)

\* The server and its clients' connections.
NextWithClients ==
    \/ Next
    \/ \E r \in Requests : ClientDisconnect(r)

\* Concurrent requests for one tile, starting from an empty bucket.
Spec == Init /\ [][Next]_vars

\* One request, any query of the sweep.
SpecSweep == InitSweep /\ [][Next]_vars

\* The bucket starts empty; the requests differ in how they write coordinates.
InitTokens == InitWith(Requests, TokenQueries, <<>>, UpstreamReplies)

SpecTokens == InitTokens /\ [][Next]_vars

\* Concurrent requests to /tiles, /maps and /health on a fresh process.
InitRoutes == InitWith(Requests, RouteQueries, <<>>, UpstreamReplies)

SpecRoutes == InitRoutes /\ [][Next]_vars

\* One request for a tile of any provider, the bucket an earlier run left.
InitNamespaces == InitWith({1}, NamespaceQueries, SeedStore, UpstreamReplies)

SpecNamespaces == InitNamespaces /\ [][Next]_vars

\* One request, any stored object, any upstream header and body.
SpecFormats == InitFormats /\ [][Next]_vars

\* The continuations of a request that is being handled.
Continue(r) ==
    \/ ConfigExistsReturn(r)
    \/ LoadConfigReturn(r)
    \/ Resolve(r)
    \/ ExistsReturn(r)
    \/ ReadReturn(r)
    \/ FetchReturn(r)
    \/ BodyReturn(r)
    \/ WriteReturn(r)

\* Every call the handler awaits settles (the configuration load, the store
\* and the upstream return or fail), and the event loop then runs the
\* continuation.  Nothing obliges a client to send or to stay.
Fairness == \A r \in Requests : WF_vars(Continue(r))

\* One request whose client may leave at any moment, under fairness.
FairSpec == InitFair /\ [][NextWithClients]_vars /\ Fairness

(***************************************************************************)
(* Vocabulary of the properties.                                           *)
(***************************************************************************)
Answered(r) == resp[r] # <<>>

\* The request's upstream fetch ended in a success status and a body.
FetchedOk(r) == upstream[r] # <<>> /\ upstream[r][1].ok

\* The request's upstream fetch ended in a non-success status or threw
\* (fetch itself, or the read of the body of a success).
FetchFailed(r) == upstream[r] # <<>> /\ ~upstream[r][1].ok

AnsweredTile(r, xCache, bytes) ==
    /\ Answered(r)
    /\ resp[r][1].status = 200
    /\ resp[r][1].xCache = xCache
    /\ resp[r][1].bytes = bytes

\* Neither request's write had been stored when the other arrived.
Concurrent(r1, r2) ==
    /\ r1 # r2
    /\ pc[r1] # "idle" /\ pc[r2] # "idle"
    /\ r1 \notin settled[r2] /\ r2 \notin settled[r1]

(***************************************************************************)
(* C1.  Miss then hit: if a request was answered 200 with X-Cache: MISS    *)
(* and its store write has succeeded, a later identical request (whose     *)
(* probe the store answers) is answered 200 with X-Cache: HIT, the same    *)
(* bytes, and no upstream fetch, whatever the format of the tile.          *)
(* Fails for a tile classified as jpg: it is written under the .jpg key    *)
(* and probed under the .png key.                                          *)
(***************************************************************************)
MissThenHit ==
    \A r1, r2 \in Requests :
        ( /\ r1 \in settled[r2]
          /\ query[r2] = query[r1]
          /\ Answered(r1)
          /\ resp[r1][1].status = 200
          /\ resp[r1][1].xCache = "MISS"
          /\ probe[r2] # "error"
          /\ pc[r2] = "done" )
        => /\ AnsweredTile(r2, "HIT", resp[r1][1].bytes)
           /\ fetches[r2] = 0

(***************************************************************************)
(* C2.  A cache hit ends the pipeline: in the step in which the probed     *)
(* object is read, the request is answered 200 with the bytes stored under *)
(* the probed key and X-Cache: HIT; a request that hit has issued, and     *)
(* will issue, no upstream fetch and no store write.                       *)
(***************************************************************************)
HitEndsPipeline ==
    [][\A r \in Requests :
          probe'[r] = "hit" =>
              /\ pc'[r] = "done"
              /\ fetches'[r] = 0
              /\ upstream'[r] = <<>>
              /\ wr'[r] = NoWrite
              /\ Answered(r)'
              /\ resp'[r][1].status = 200
              /\ resp'[r][1].xCache = "HIT"
              /\ probe[r] # "hit" =>
                     /\ ProbeKey(r) \in DOMAIN store
                     /\ resp'[r][1].bytes = store[ProbeKey(r)].data]_vars

HitServed ==
    \E r \in Requests :
        /\ probe[r] = "hit"
        /\ pc[r] = "done"
        /\ AnsweredTile(r, "HIT", store[ProbeKey(r)].data)

(***************************************************************************)
(* C3.  A persistence failure never reaches the client: a request whose    *)
(* upstream fetch succeeded (a success status, and the body read) is       *)
(* answered 200 with the fetched bytes, while its write is pending and     *)
(* after it succeeded or failed.                                           *)
(***************************************************************************)
PersistenceFailureHidden ==
    \A r \in Requests :
        FetchedOk(r) =>
            /\ Answered(r)
            /\ resp[r][1].status = 200
            /\ resp[r][1].bytes = upstream[r][1].body
            /\ wr[r].state \in {"pending", "ok", "failed"}

WriteFailedAfterSuccess ==
    \E r \in Requests :
        /\ FetchedOk(r)
        /\ wr[r].state = "failed"
        /\ resp[r][1].status = 200

(***************************************************************************)
(* C4.  An upstream failure writes nothing: a request whose fetch ended in *)
(* a non-success status or threw (also while the body was read) is         *)
(* answered 500 and never has a store write, and the step in which the     *)
(* fetch fails leaves the store as it is.                                  *)
(***************************************************************************)
UpstreamFailureWritesNothing ==
    [][\A r \in Requests :
          FetchFailed(r)' =>
              /\ Answered(r)'
              /\ resp'[r][1].status = 500
              /\ wr'[r] = NoWrite
              /\ ~FetchFailed(r) => store' = store]_vars

UpstreamFailed ==
    \E r1, r2 \in Requests :
        /\ FetchFailed(r1) /\ upstream[r1][1].kind = "http"
        /\ FetchFailed(r2) /\ upstream[r2][1].kind = "throw"
        /\ resp[r1][1].status = 500
        /\ resp[r2][1].status = 500

(***************************************************************************)
(* C5.  A storage read failure degrades to a miss: a request whose         *)
(* existence check or read failed fetches upstream once and is answered    *)
(* from the upstream result: 200 with the fetched bytes, or 500 only for   *)
(* an upstream failure.                                                    *)
(***************************************************************************)
ProbeFailureIsMiss ==
    \A r \in Requests :
        probe[r] = "error" =>
            /\ fetches[r] = 1
            /\ pc[r] \in {"fetch", "body", "done"}
            /\ pc[r] \in {"fetch", "body"} => ~Answered(r)
            /\ pc[r] = "done" =>
                   /\ Answered(r)
                   /\ upstream[r] # <<>>
                   /\ IF upstream[r][1].ok
                      THEN /\ resp[r][1].status = 200
                           /\ resp[r][1].bytes = upstream[r][1].body
                      ELSE /\ resp[r][1].status = 500
                           /\ \/ resp[r][1].text = "Internal server error"
                              \/ Includes(resp[r][1].text,
                                          upstream[r][1].statusText)

ProbeFailedThenServed ==
    \E r \in Requests :
        /\ probe[r] = "error"
        /\ pc[r] = "done"
        /\ FetchedOk(r)
        /\ resp[r][1].status = 200

(***************************************************************************)
(* C6.  Validation order: the first failing check decides the answer: 400  *)
(* for a missing parameter, else 400 for a coordinate that does not parse, *)
(* else 404 for a provider that is not in the registry, else 400 naming    *)
(* the provider's maxZoom for a zoom outside 0..maxZoom; only a request    *)
(* that passes all four goes on to the cache (and ends in 200 or 500).     *)
(* Fails for a provider id that is a name every object inherits, such as   *)
(* "constructor": the lookup finds a value, the request is not answered    *)
(* 404, and it is answered 400 "Max zoom: undefined" for a negative zoom   *)
(* or goes on to the cache.                                                *)
(***************************************************************************)
Missing(q) == q.source = "" \/ q.z = "" \/ q.x = "" \/ q.y = ""

NotInteger(q) == ParseInt(q.z).nan \/ ParseInt(q.x).nan \/ ParseInt(q.y).nan

UnknownProvider(q) == q.source \notin DOMAIN ConfigFile.maps

ZoomOutOfRange(q) ==
    \/ ParseInt(q.z).val < 0
    \/ ParseInt(q.z).val > ConfigFile.maps[q.source].maxZoom

\* The request passed every validation step: the handler is at, or past,
\* its cache lookup.
Accepted(r) ==
    pc[r] \in {"exists", "read", "fetch", "body"} \/ probe[r] # "none"

ValidationOrder ==
    \A r \in Requests :
        /\ pc[r] \notin {"idle", "done"} =>
               ~Missing(query[r]) /\ ~NotInteger(query[r])
        /\ Accepted(r) =>
               ~UnknownProvider(query[r]) /\ ~ZoomOutOfRange(query[r])
        /\ pc[r] = "done" =>
            LET q == query[r]
                a == resp[r][1]
            IN  IF Missing(q)
                THEN a.status = 400 /\ Includes(a.text, "Missing")
                ELSE IF NotInteger(q)
                THEN a.status = 400 /\ Includes(a.text, "Invalid coordinate")
                ELSE IF UnknownProvider(q)
                THEN a.status = 404 /\ Includes(a.text, q.source)
                ELSE IF ZoomOutOfRange(q)
                THEN /\ a.status = 400
                     /\ Includes(a.text, "Max zoom: "
                            \o ToString(ConfigFile.maps[q.source].maxZoom))
                ELSE a.status \in {200, 500}

(***************************************************************************)
(* C7.  A rejected request has no effect: a request answered 400 or 404    *)
(* has probed nothing, fetched nothing and written nothing, and the bucket *)
(* is as it was; every cache lookup and every fetch is for a known         *)
(* provider and a zoom in 0..maxZoom.                                      *)
(* Fails for a provider id that is a name every object inherits, such as   *)
(* "constructor": the request passes both checks and the store is asked    *)
(* for constructor/tiles/{z}/{x}/{y}.png, at any zoom that is not          *)
(* negative.                                                               *)
(***************************************************************************)
Rejected(r) == Answered(r) /\ resp[r][1].status \in {400, 404}

RejectedHasNoEffect ==
    \A r \in Requests :
        /\ Rejected(r) =>
               /\ pc[r] = "done"
               /\ probe[r] = "none"
               /\ fetches[r] = 0
               /\ upstream[r] = <<>>
               /\ wr[r] = NoWrite
               /\ store = SeedStore
        /\ ( \/ pc[r] \in {"exists", "read", "fetch", "body"}
             \/ probe[r] # "none"
             \/ fetches[r] > 0 ) =>
               /\ query[r].source \in DOMAIN ConfigFile.maps
               /\ ParseInt(query[r].z).val
                      \in 0..ConfigFile.maps[query[r].source].maxZoom

(***************************************************************************)
(* C8.  The response does not wait for persistence: whenever a request's   *)
(* store write is in flight, the handler has already returned its 200.     *)
(***************************************************************************)
ResponseBeforeWrite ==
    \A r \in Requests :
        wr[r].state = "pending" =>
            /\ pc[r] = "done"
            /\ Answered(r)
            /\ resp[r][1].status = 200
            /\ resp[r][1].bytes = wr[r].data

RespondedWhileWriting ==
    \E r \in Requests :
        /\ wr[r].state = "pending"
        /\ Answered(r)
        /\ resp[r][1].status = 200

(***************************************************************************)
(* C9.  Persistence is not cancelled by the client: once a request's       *)
(* upstream fetch has succeeded its store write is issued, and it runs to  *)
(* completion (stored, or failed and logged) also when the client has      *)
(* left, before or after the response.                                     *)
(***************************************************************************)
PersistenceNotCancelled ==
    \A r \in Requests :
        FetchedOk(r) ~> (wr[r].state \in {"ok", "failed"})

StoredAfterClientLeft ==
    \E r \in Requests :
        /\ client[r] = "left before response"
        /\ FetchedOk(r)
        /\ wr[r].state = "ok"

(***************************************************************************)
(* C10.  The same-tile race is benign.                                     *)
(* As claimed: two concurrent requests for one tile that both miss and     *)
(* both fetch are each answered 200 with their own body, write the same    *)
(* key, and once both writes are stored the object is one of the two       *)
(* payloads.                                                               *)
(***************************************************************************)
RacePair(r1, r2) ==
    /\ Concurrent(r1, r2)
    /\ query[r1] = query[r2]
    /\ probe[r1] = "miss" /\ probe[r2] = "miss"
    /\ FetchedOk(r1) /\ FetchedOk(r2)

SameTileRaceOneKey ==
    \A r1, r2 \in Requests :
        RacePair(r1, r2) =>
            /\ resp[r1][1].status = 200
            /\ resp[r1][1].bytes = upstream[r1][1].body
            /\ wr[r1].key = wr[r2].key
            /\ (wr[r1].state = "ok" /\ wr[r2].state = "ok") =>
                   store[wr[r1].key].data
                       \in {upstream[r1][1].body, upstream[r2][1].body}

\* As amended: they write the same key when their responses are classified
\* as the same format, and otherwise the png and the jpg key of the tile;
\* a stored write leaves under its key the whole payload, with its type,
\* of one of the fetches stored under that key (last writer wins).
SameTileRaceBenign ==
    \A r1, r2 \in Requests :
        RacePair(r1, r2) =>
            /\ resp[r1][1].status = 200
            /\ resp[r1][1].bytes = upstream[r1][1].body
            /\ wr[r1].data = upstream[r1][1].body
            /\ wr[r1].type = wr[r2].type => wr[r1].key = wr[r2].key
            /\ wr[r1].type # wr[r2].type =>
                   {wr[r1].key, wr[r2].key}
                       = {generateTileKey(CacheKey(query[r1]),
                                          MapSourceOf(r1).cachePrefix, e) :
                              e \in {"png", "jpg"}}
            /\ wr[r1].state = "ok" =>
                   /\ wr[r1].key \in DOMAIN store
                   /\ \E w \in Requests :
                          /\ wr[w].state = "ok"
                          /\ wr[w].key = wr[r1].key
                          /\ store[wr[r1].key] =
                                 [data |-> upstream[w][1].body,
                                  type |-> wr[w].type]

\* Both wrote the same key with different payloads, and both are stored.
LastWriterWon ==
    \E r1, r2 \in Requests :
        /\ RacePair(r1, r2)
        /\ wr[r1].key = wr[r2].key
        /\ wr[r1].data # wr[r2].data
        /\ wr[r1].state = "ok" /\ wr[r2].state = "ok"
        /\ store[wr[r1].key].data = wr[r2].data

(***************************************************************************)
(* C11.  On a cache hit the Content-Type follows the stored bytes: a       *)
(* request served from the store is answered image/jpeg when the object    *)
(* under the probed key starts FF D8 FF, and image/png otherwise.          *)
(* Fails in src/index.ts, whose hit branch always announces image/png.     *)
(***************************************************************************)
StartsWithJpegSignature(bytes) ==
    /\ Len(bytes) >= 3
    /\ bytes[1] = 255 /\ bytes[2] = 216 /\ bytes[3] = 255

HitTypeFromBytes ==
    \A r \in Requests :
        (probe[r] = "hit" /\ Answered(r)) =>
            resp[r][1].contentType =
                IF StartsWithJpegSignature(resp[r][1].bytes)
                THEN "image/jpeg" ELSE "image/png"

(***************************************************************************)
(* C12.  Every 200 response carries Content-Type image/png or image/jpeg,  *)
(* Cache-Control: public, max-age=86400, and X-Cache: HIT exactly when the *)
(* bytes were read from the store, MISS exactly when they were fetched.    *)
(* Fails in src/index.ts, whose miss response is built with empty headers. *)
(***************************************************************************)
TileResponseHeaders ==
    \A r \in Requests :
        (Answered(r) /\ resp[r][1].status = 200) =>
            /\ resp[r][1].contentType \in {"image/png", "image/jpeg"}
            /\ resp[r][1].cacheControl = "public, max-age=86400"
            /\ resp[r][1].xCache \in {"HIT", "MISS"}
            /\ resp[r][1].xCache = "HIT" <=> probe[r] = "hit"
            /\ resp[r][1].xCache = "MISS" <=> FetchedOk(r)

(***************************************************************************)
(* C13.  A cached object is persisted once: when requests do not overlap   *)
(* (the earlier one's write was stored before the later one arrived) and   *)
(* the store answers every probe, no two requests write the same key.      *)
(* Fails for a tile classified as jpg: the later request probes the .png   *)
(* key, misses, and writes the .jpg key again.                             *)
(***************************************************************************)
PersistedOnce ==
    \A r1, r2 \in Requests :
        ( /\ r1 \in settled[r2]
          /\ probe[r1] # "error" /\ probe[r2] # "error"
          /\ wr[r1].state # "none" /\ wr[r2].state # "none" )
        => wr[r1].key # wr[r2].key

(***************************************************************************)
(* C14.  Cache identity: two accepted requests for the same provider whose *)
(* zoom, column and row parse to the same integers probe the same key and, *)
(* when their tiles are classified alike, write the same key.              *)
(* Fails: the key is built from the tokens as sent, so z=2 and z=02 are    *)
(* two objects.                                                            *)
(***************************************************************************)
ParsedTile(q) == <<ParseInt(q.z).val, ParseInt(q.x).val, ParseInt(q.y).val>>

CacheIdentity ==
    \A r1, r2 \in Requests :
        ( /\ Accepted(r1) /\ Accepted(r2)
          /\ query[r1].source = query[r2].source
          /\ ParsedTile(query[r1]) = ParsedTile(query[r2]) )
        => /\ ProbeKey(r1) = ProbeKey(r2)
           /\ ( /\ wr[r1].state # "none" /\ wr[r2].state # "none"
                /\ wr[r1].type = wr[r2].type )
              => wr[r1].key = wr[r2].key

(***************************************************************************)
(* C15.  Key derivation is injective: two accepted requests for the same   *)
(* provider whose (zoom, column, row) differ in a component probe          *)
(* different keys.                                                         *)
(* Fails: a token that parses may hold a "/", and x=1/2, y=0 derives the   *)
(* key of x=1, y=2/0.                                                      *)
(***************************************************************************)
TileTokens(q) == <<q.z, q.x, q.y>>

KeyDerivationInjective ==
    \A r1, r2 \in Requests :
        ( /\ Accepted(r1) /\ Accepted(r2)
          /\ query[r1].source = query[r2].source
          /\ TileTokens(query[r1]) # TileTokens(query[r2])
          /\ ParsedTile(query[r1]) # ParsedTile(query[r2]) )
        => ProbeKey(r1) # ProbeKey(r2)

(***************************************************************************)
(* C16.  Subdomain selection is a function of the tile: for a provider     *)
(* with N > 0 subdomains, the URL a request fetches holds, in place of     *)
(* {s}, the subdomain at index (column + row + zoom) mod N.                *)
(* Fails when the sum is negative: the remainder is negative, no element   *)
(* is read, and the host starts with "undefined".                          *)
(***************************************************************************)
\* The URL with the subdomain the rule names.
UrlBySubdomainRule(mapSource, q) ==
    LET n == Len(mapSource.subdomains)
        sum == ParseInt(q.x).val + ParseInt(q.y).val + ParseInt(q.z).val
        u == ReplaceFirst(ReplaceFirst(ReplaceFirst(mapSource.urlTemplate,
                 "{z}", q.z), "{x}", q.x), "{y}", q.y)
    IN  ReplaceFirst(u, "{s}", mapSource.subdomains[(sum % n) + 1])

SubdomainByTile ==
    \A r \in Requests :
        (fetches[r] > 0 /\ Len(MapSourceOf(r).subdomains) > 0) =>
            FetchUrl(r) = UrlBySubdomainRule(MapSourceOf(r), query[r])

(***************************************************************************)
(* C17.  Key, stored type and response type agree on a miss: a write's key *)
(* ends in .jpg exactly when its content type is image/jpeg and in .png    *)
(* exactly when it is image/png, and the response of the request that      *)
(* issued the write announces that content type.                           *)
(* Fails in src/index.ts: the write is png / image/png and the response    *)
(* announces no Content-Type.                                              *)
(***************************************************************************)
KeyExtension(key) == SubSeq(key, Len(key) - 3, Len(key))

KeyTypeResponseAgree ==
    \A r \in Requests :
        wr[r].state # "none" =>
            /\ KeyExtension(wr[r].key) \in {".jpg", ".png"}
            /\ KeyExtension(wr[r].key) = ".jpg" <=> wr[r].type = "image/jpeg"
            /\ KeyExtension(wr[r].key) = ".png" <=> wr[r].type = "image/png"
            /\ Answered(r)
            /\ resp[r][1].contentType = wr[r].type

(***************************************************************************)
(* C18.  Round trip keeps bytes and format: when a request wrote a tile    *)
(* under a key and a later request is served from that key, the hit        *)
(* returns the written bytes and announces the content type under which    *)
(* the tile was written.                                                   *)
(* Fails when the upstream announces image/png for JPEG bytes: the miss    *)
(* trusts the header, the hit the signature.                               *)
(***************************************************************************)
RoundTrip ==
    \A r1, r2 \in Requests :
        ( /\ r1 \in settled[r2]
          /\ probe[r2] = "hit" /\ Answered(r2)
          /\ wr[r1].key = ProbeKey(r2) )
        => /\ resp[r2][1].bytes = wr[r1].data
           /\ resp[r2][1].contentType = wr[r1].type

(***************************************************************************)
(* C19.  Miss-path classification order (the module that classifies): a    *)
(* fetched tile is written and announced as JPEG when the upstream         *)
(* content-type contains jpeg or jpg, as PNG when it does not but contains *)
(* png, and only otherwise (absent, or naming neither) by the signature of *)
(* the body.                                                               *)
(***************************************************************************)
IndicatesJpeg(header) == Includes(header, "jpeg") \/ Includes(header, "jpg")

IndicatesPng(header) == Includes(header, "png")

FormatWritten(r, contentType, extension) ==
    /\ wr[r].type = contentType
    /\ KeyExtension(wr[r].key) = extension
    /\ resp[r][1].contentType = contentType

ClassificationOrder ==
    \A r \in Requests :
        (app = "typed" /\ FetchedOk(r)) =>
            LET header == upstream[r][1].contentType
                body == upstream[r][1].body
            IN  /\ IndicatesJpeg(header) => FormatWritten(r, "image/jpeg", ".jpg")
                /\ (~IndicatesJpeg(header) /\ IndicatesPng(header)) =>
                       FormatWritten(r, "image/png", ".png")
                /\ (~IndicatesJpeg(header) /\ ~IndicatesPng(header)) =>
                       IF StartsWithJpegSignature(body)
                       THEN FormatWritten(r, "image/jpeg", ".jpg")
                       ELSE FormatWritten(r, "image/png", ".png")

\* A header naming JPEG over a PNG body: written and announced as JPEG.
HeaderBeforeSignature ==
    \E r \in Requests :
        /\ app = "typed" /\ FetchedOk(r)
        /\ upstream[r][1].contentType = "image/jpeg"
        /\ upstream[r][1].body = PngTile
        /\ FormatWritten(r, "image/jpeg", ".jpg")

(***************************************************************************)
(* C20.  The byte sniffer is total: whatever bytes it is given, the empty  *)
(* sequence and sequences shorter than a signature included, it answers    *)
(* jpg or png; jpg for three or more bytes starting FF D8 FF, png for      *)
(* bytes starting with the eight-byte PNG signature, png for the rest.     *)
(* Seen where the sniffer decides: the Content-Type of a hit, and the      *)
(* format written on a miss whose header names no format.                  *)
(***************************************************************************)
StartsWithPngSignature(bytes) ==
    /\ Len(bytes) >= 8
    /\ \A i \in 1..8 : bytes[i] = PngSignature[i]

SniffedAs(bytes, contentType) ==
    /\ contentType \in {"image/jpeg", "image/png"}
    /\ StartsWithJpegSignature(bytes) => contentType = "image/jpeg"
    /\ StartsWithPngSignature(bytes) => contentType = "image/png"
    /\ ~StartsWithJpegSignature(bytes) => contentType = "image/png"

SnifferTotal ==
    \A r \in Requests :
        /\ (app = "typed" /\ probe[r] = "hit" /\ Answered(r)) =>
               SniffedAs(resp[r][1].bytes, resp[r][1].contentType)
        /\ ( /\ app = "typed" /\ FetchedOk(r)
             /\ ~IndicatesJpeg(upstream[r][1].contentType)
             /\ ~IndicatesPng(upstream[r][1].contentType) ) =>
               /\ SniffedAs(upstream[r][1].body, wr[r].type)
               /\ SniffedAs(upstream[r][1].body, resp[r][1].contentType)

\* A hit on an object that is the first two bytes of the JPEG signature.
ShortBufferSniffed ==
    \E r \in Requests :
        /\ app = "typed"
        /\ probe[r] = "hit" /\ Answered(r)
        /\ resp[r][1].bytes = <<255, 216>>
        /\ resp[r][1].contentType = "image/png"

(***************************************************************************)
(* C21.  The configuration is loaded once: however requests to /tiles,     *)
(* /maps and /health interleave, loadConfig is executed at most once, and  *)
(* every provider lookup reads a loaded configuration.                     *)
(* Fails: every request that arrives before the first load has returned    *)
(* finds the flag false and starts a load of its own; and a load that      *)
(* throws leaves the flag false, so the next request loads again.          *)
(***************************************************************************)
\* The request has looked providers up.
LookedUp(r) ==
    \/ listed[r] # <<>>
    \/ /\ query[r].path = "/tiles"
       /\ ValidateQuery(query[r]) = <<>>
       /\ \/ pc[r] \in {"exists", "read", "fetch", "body", "done"}
          \/ probe[r] # "none"

ConfigLoadedOnce ==
    /\ loads <= 1
    /\ \A r \in Requests :
           LookedUp(r) =>
               /\ config = <<ConfigFile>>
               /\ listed[r] # <<>> => listed[r][1] = DOMAIN ConfigFile.maps

(***************************************************************************)
(* C22.  Single pass, no retry: a request never goes back to an earlier    *)
(* point of its handler, so it probes the cache at most once; it issues at *)
(* most one upstream fetch and at most one store write; once its fetch has *)
(* failed it is done and fetches no more.                                  *)
(***************************************************************************)
\* The order of the points at which a handler is suspended.
Stage(p) ==
    CASE p = "idle" -> 0 [] p = "loadConfig" -> 1 [] p = "readConfig" -> 2
      [] p = "resolve" -> 3 [] p = "exists" -> 4 [] p = "read" -> 5
      [] p = "fetch" -> 6 [] p = "body" -> 7 [] p = "done" -> 8
      [] p = "threw" -> 8 [] OTHER -> 9

SinglePass ==
    [][\A r \in Requests :
          /\ Stage(pc'[r]) >= Stage(pc[r])
          /\ (pc'[r] = "exists" /\ pc[r] # "exists") => probe[r] = "none"
          /\ fetches'[r] <= 1
          /\ wr[r].state # "none" =>
                 /\ wr'[r].state # "none"
                 /\ wr'[r].key = wr[r].key
                 /\ wr'[r].data = wr[r].data
                 /\ wr[r].state # "pending" => wr'[r] = wr[r]
          /\ FetchFailed(r) =>
                 /\ pc[r] = "done" /\ pc'[r] = "done"
                 /\ fetches'[r] = fetches[r]
                 /\ wr'[r] = NoWrite]_vars

\* A request whose only fetch failed, and which is done.
FailedFetchNotRepeated ==
    \E r \in Requests :
        /\ FetchFailed(r)
        /\ probe[r] = "miss"
        /\ fetches[r] = 1
        /\ pc[r] = "done"
        /\ resp[r][1].status = 500
        /\ \A s \in Requests : pc[s] = "done"

(***************************************************************************)
(* C23.  Every request ends in exactly one terminal outcome: provided the  *)
(* calls it awaits return or fail, a /tiles request that has arrived is    *)
(* eventually answered, by a validation rejection (400 or 404), a cache    *)
(* hit (200), a fetched tile (200) or a fetch failure (500); and a         *)
(* response, once produced, is never replaced.                             *)
(* Fails for a provider id that is a name every object inherits, such as   *)
(* "constructor": past the checks and a cache miss the handler reads the   *)
(* urlTemplate of a value that has none and throws outside its try, so it  *)
(* returns none of the four.  (The handler also throws when the            *)
(* configuration cannot be loaded; the property is stated of the runs in   *)
(* which it can.)                                                          *)
(***************************************************************************)
TerminalOutcome(r) ==
    /\ pc[r] = "done"
    /\ Answered(r)
    /\ \/ /\ resp[r][1].status \in {400, 404}
          /\ probe[r] = "none" /\ upstream[r] = <<>>
       \/ /\ resp[r][1].status = 200
          /\ probe[r] = "hit" /\ upstream[r] = <<>>
       \/ /\ resp[r][1].status = 200
          /\ probe[r] \in {"miss", "error"} /\ FetchedOk(r)
       \/ /\ resp[r][1].status = 500
          /\ probe[r] \in {"miss", "error"} /\ FetchFailed(r)

\* The configuration of the run can be loaded.
ConfigReadable == disk = ValidFile

OneTerminalOutcome ==
    /\ \A r \in Requests :
           (ConfigReadable /\ pc[r] # "idle") ~> TerminalOutcome(r)
    /\ [][\A r \in Requests :
             /\ Answered(r) => resp'[r] = resp[r]
             /\ Answered(r)' => TerminalOutcome(r)']_vars

(***************************************************************************)
(* C24.  Namespace handling: the namespace of a key is the provider's      *)
(* cache prefix, or the provider id when no prefix is set, without its     *)
(* leading and trailing slashes; the key is tiles/{z}/{x}/{y}.{ext} when   *)
(* that is empty and {namespace}/tiles/{z}/{x}/{y}.{ext} otherwise.  Said  *)
(* of the key a request probes and of the key it writes.                   *)
(***************************************************************************)
AllSlashes(s) == \A i \in 1..Len(s) : Char(s, i) = "/"

\* ns is s without its leading and trailing slashes.
IsStripped(s, ns) ==
    /\ ns = "" \/ (Char(ns, 1) # "/" /\ Char(ns, Len(ns)) # "/")
    /\ \E i \in 1..(Len(s) + 1) :
           /\ AllSlashes(SubSeq(s, 1, i - 1))
           /\ AllSlashes(SubSeq(s, i + Len(ns), Len(s)))
           /\ i + Len(ns) - 1 <= Len(s)
           /\ SubSeq(s, i, i + Len(ns) - 1) = ns

\* The namespaces of the configured providers, as the claim names them.
NamespaceOf(id) ==
    CASE id = "osm" -> "osm"
      [] id = "sat" -> "sat"
      [] id = "root" -> ""
      [] id = "deep" -> "maps/deep"
      [] id = "tms/" -> "tms"

KeyWithNamespace(key, q, extension) ==
    LET ns == NamespaceOf(q.source)
        path == "tiles/" \o q.z \o "/" \o q.x \o "/" \o q.y \o "." \o extension
    IN  /\ IsStripped(IF ConfigFile.maps[q.source].cachePrefix # ""
                      THEN ConfigFile.maps[q.source].cachePrefix
                      ELSE q.source, ns)
        /\ key = IF ns = "" THEN path ELSE ns \o "/" \o path

NamespaceHandling ==
    \A r \in Requests :
        /\ Accepted(r) => KeyWithNamespace(ProbeKey(r), query[r], "png")
        /\ wr[r].state # "none" =>
               KeyWithNamespace(wr[r].key, query[r],
                                IF wr[r].type = "image/jpeg" THEN "jpg"
                                ELSE "png")

\* A tile of the provider whose prefix is slashes only, stored with no
\* namespace.
StoredWithoutNamespace ==
    \E r \in Requests :
        /\ query[r].source = "root"
        /\ wr[r].state = "ok"
        /\ wr[r].key = "tiles/1/0/1.png"
        /\ wr[r].key \in DOMAIN store

(***************************************************************************)
(* C25.  The chosen subdomain is one of the provider's: for every request  *)
(* that fetches from a provider with N > 0 subdomains, the index computed  *)
(* from column, row and zoom lies in 0..N-1 and the URL fetched is the     *)
(* template with an element of the subdomain list in place of {s}.         *)
(* Fails for a negative column or row: the remainder keeps the sign of the *)
(* sum.                                                                    *)
(***************************************************************************)
\* The subdomainIndex the handler computes for the request.
SubdomainIndexOf(r) ==
    JsRemainder(ParseInt(query[r].x).val + ParseInt(query[r].y).val
                    + ParseInt(query[r].z).val,
                Len(MapSourceOf(r).subdomains))

SubdomainInPool ==
    \A r \in Requests :
        (fetches[r] > 0 /\ Len(MapSourceOf(r).subdomains) > 0) =>
            LET pool == MapSourceOf(r).subdomains
                u == ReplaceFirst(ReplaceFirst(ReplaceFirst(
                         MapSourceOf(r).urlTemplate, "{z}", query[r].z),
                         "{x}", query[r].x), "{y}", query[r].y)
            IN  /\ SubdomainIndexOf(r) \in 0..(Len(pool) - 1)
                /\ \E i \in 1..Len(pool) :
                       FetchUrl(r) = ReplaceFirst(u, "{s}", pool[i])

(***************************************************************************)
(* C26.  The store only holds fetched tiles: starting from an empty        *)
(* bucket, every object is the whole body of an upstream response with a   *)
(* success status, fetched by a request whose provider and (z, x, y)       *)
(* tokens derive the object's key, stored with the type it was written     *)
(* with; requests whose fetch failed and requests served from the store    *)
(* write nothing.                                                          *)
(***************************************************************************)
\* The keys under which the handler may write a tile of the request.
KeysOfRequest(r) ==
    { generateTileKey(CacheKey(query[r]), MapSourceOf(r).cachePrefix, e) :
          e \in {"png", "jpg"} }

StoreHoldsFetchedTiles ==
    /\ \A k \in DOMAIN store :
           \E w \in Requests :
               /\ FetchedOk(w)
               /\ wr[w].state = "ok"
               /\ k = wr[w].key
               /\ k \in KeysOfRequest(w)
               /\ store[k].data = upstream[w][1].body
               /\ store[k].type = wr[w].type
    /\ \A r \in Requests :
           (FetchFailed(r) \/ probe[r] = "hit") => wr[r] = NoWrite

\* One request's tile is stored while the other request's fetch ended in an
\* error status with a body.
StoredBesideFailure ==
    \E w, r \in Requests :
        /\ wr[w].state = "ok"
        /\ store[wr[w].key].data = upstream[w][1].body
        /\ FetchFailed(r)
        /\ upstream[r][1].kind = "http"
        /\ DOMAIN store = {wr[w].key}

====
